---- MODULE Spec2Model ----
(***************************************************************************)
(* Model of the settings store of the window transparency tool             *)
(* (transparency_tool/persistence.py): TransparencyConfig, its coercion    *)
(* from a JSON payload, and TransparencyStore with its load, flush,        *)
(* setters and remove, over a disk that holds the settings file and its    *)
(* .bak sibling.                                                           *)
(***************************************************************************)
EXTENDS Integers, Sequences, FiniteSets, TLC

\* ------------------------------------------------------------------------
\* Bounds
\* ------------------------------------------------------------------------

\* largest number of entries of the settings file a store is constructed over
MaxFileEntries == 2

\* ------------------------------------------------------------------------
\* Python / JSON values.  A scalar is [t, v]: t is the Python type and v an
\* integer (the number, 0/1 for a bool, the length for a string or list).
\* bool is a subclass of int in Python, so isinstance(True, int) holds.
\* ------------------------------------------------------------------------

IntV(n) == [t |-> "int", v |-> n]
BoolV(b) == [t |-> "bool", v |-> IF b THEN 1 ELSE 0]
NoneV == [t |-> "none", v |-> 0]
StrV(len) == [t |-> "str", v |-> len]
FloatV(n) == [t |-> "float", v |-> n]
ListV(len) == [t |-> "list", v |-> len]

\* isinstance(x, int)
IsInt(x) == x.t \in {"int", "bool"}

\* bool(x)
Truthy(x) == x.v # 0

NoFields == [n \in {} |-> NoneV]

\* a payload is a scalar or a dict; f holds the fields of a dict
ScalarP(s) == [t |-> s.t, v |-> s.v, f |-> NoFields]
DictP(fields) == [t |-> "dict", v |-> Cardinality(DOMAIN fields), f |-> fields]

\* dict.get(name, default)
Get(fields, name, default) == IF name \in DOMAIN fields THEN fields[name] ELSE default

\* ------------------------------------------------------------------------
\* TransparencyConfig
\* ------------------------------------------------------------------------

MinAlpha == 0
MaxAlpha == 255

is_valid_alpha(value) == IsInt(value) /\ MinAlpha <= value.v /\ value.v <= MaxAlpha

TransparencyConfig(d, h, e) == [default_alpha |-> d, hover_alpha |-> h, hover_enabled |-> e]

\* to_payload that writes no hover alpha of its own
to_payload_no_hover(config) ==
    DictP([n \in {"default_alpha", "hover_alpha", "hover_enabled"} |->
            CASE n = "default_alpha" -> config.default_alpha
              [] n = "hover_alpha" -> config.default_alpha
              [] OTHER -> BoolV(config.hover_enabled)])

to_payload(config) ==
    DictP([n \in {"default_alpha", "hover_alpha", "hover_enabled"} |->
            CASE n = "default_alpha" -> config.default_alpha
              [] n = "hover_alpha" -> config.hover_alpha
              [] OTHER -> BoolV(config.hover_enabled)])

\* from_payload raises ValueError exactly when from_payload_ok is FALSE
from_payload_ok(payload) ==
    IF IsInt(payload)
    THEN is_valid_alpha(payload)
    ELSE IF payload.t = "dict"
         THEN is_valid_alpha(Get(payload.f, "default_alpha", Get(payload.f, "alpha", NoneV)))
         ELSE FALSE

from_payload(payload) ==
    IF IsInt(payload)
    THEN TransparencyConfig([t |-> payload.t, v |-> payload.v],
                            [t |-> payload.t, v |-> payload.v], FALSE)
    ELSE LET default_alpha == Get(payload.f, "default_alpha", Get(payload.f, "alpha", NoneV))
             hover_candidate == Get(payload.f, "hover_alpha", default_alpha)
             hover_alpha == IF is_valid_alpha(hover_candidate) THEN hover_candidate
                            ELSE default_alpha
             hover_enabled == Truthy(Get(payload.f, "hover_enabled", BoolV(FALSE)))
         IN TransparencyConfig(default_alpha, hover_alpha, hover_enabled)

\* ------------------------------------------------------------------------
\* The disk: content of a file.  kind is "absent" (no file), "empty"
\* (zero bytes), "blank" (whitespace only), "garbage" (not JSON, or not
\* UTF-8), "nonobj" (JSON whose top level is not an object) or "obj" (a
\* JSON object, obj maps its keys to payloads).
\* ------------------------------------------------------------------------

NoEntries == [k \in {} |-> ScalarP(NoneV)]
RawFile(kind) == [kind |-> kind, obj |-> NoEntries]
ObjFile(entries) == [kind |-> "obj", obj |-> entries]
AbsentFile == RawFile("absent")

\* ------------------------------------------------------------------------
\* TransparencyStore
\* ------------------------------------------------------------------------

EmptyData == [k \in {} |-> TransparencyConfig(IntV(0), IntV(0), FALSE)]

\* a flush that writes every entry in the legacy shorthand
flush_locked_shorthand(d) == ObjFile([k \in DOMAIN d |-> ScalarP(d[k].default_alpha)])

\* the content _flush_locked leaves in the settings file (the .tmp sibling
\* is written and then moved onto the target)
flush_locked(d) == ObjFile([k \in DOMAIN d |-> to_payload(d[k])])

\* the for loop of _load over the items of a JSON object
parse_entries(entries) ==
    [k \in {x \in DOMAIN entries : from_payload_ok(entries[x])} |-> from_payload(entries[k])]

\* a load that resets a corrupt file without keeping a backup
load_no_backup(f, b) ==
    CASE f.kind = "absent" -> [data |-> EmptyData, file |-> f, bak |-> b]
      [] f.kind \in {"empty", "blank"} -> [data |-> EmptyData, file |-> f, bak |-> b]
      [] f.kind = "obj" -> [data |-> parse_entries(f.obj), file |-> f, bak |-> b]
      [] OTHER -> [data |-> EmptyData, file |-> flush_locked(EmptyData), bak |-> b]

\* a load that takes a file with an entry it cannot coerce for corrupt
load_strict(f, b) ==
    CASE f.kind = "absent" -> [data |-> EmptyData, file |-> f, bak |-> b]
      [] f.kind \in {"empty", "blank"} -> [data |-> EmptyData, file |-> f, bak |-> b]
      [] f.kind = "obj" /\ \A k \in DOMAIN f.obj : from_payload_ok(f.obj[k]) ->
            [data |-> parse_entries(f.obj), file |-> f, bak |-> b]
      [] OTHER -> [data |-> EmptyData, file |-> flush_locked(EmptyData), bak |-> f]

\* a load that writes the mapping back when it has read a JSON object
load_rewriting(f, b) ==
    CASE f.kind = "absent" -> [data |-> EmptyData, file |-> f, bak |-> b]
      [] f.kind \in {"empty", "blank"} -> [data |-> EmptyData, file |-> f, bak |-> b]
      [] f.kind = "obj" -> [data |-> parse_entries(f.obj),
                            file |-> flush_locked(parse_entries(f.obj)), bak |-> b]
      [] OTHER -> [data |-> EmptyData, file |-> flush_locked(EmptyData), bak |-> f]

\* _load: the mapping, the settings file and the .bak sibling it leaves
load(f, b) ==
    CASE f.kind = "absent" -> [data |-> EmptyData, file |-> f, bak |-> b]
      [] f.kind \in {"empty", "blank"} -> [data |-> EmptyData, file |-> f, bak |-> b]
      [] f.kind = "obj" -> [data |-> parse_entries(f.obj), file |-> f, bak |-> b]
      [] OTHER -> [data |-> EmptyData, file |-> flush_locked(EmptyData), bak |-> f]

\* ------------------------------------------------------------------------
\* Inputs of the callers
\* ------------------------------------------------------------------------

\* the non-empty window keys the callers use
Keys == {"A", "B"}

\* a window_key argument: a string (possibly empty) or not a string (None)
StrKey(s) == [t |-> "str", s |-> s]
NoneKey == [t |-> "none", s |-> ""]
KeyInputs == {StrKey(s) : s \in Keys \cup {""}} \cup {NoneKey}

\* an alpha argument and an enabled argument
AlphaInputs == {IntV(-1), IntV(180), IntV(255), IntV(256), NoneV}
EnabledInputs == {BoolV(TRUE), BoolV(FALSE), IntV(1), NoneV}

\* ------------------------------------------------------------------------
\* Contents the settings file may have when a store is constructed
\* ------------------------------------------------------------------------

FieldNames == {"default_alpha", "alpha", "hover_alpha", "hover_enabled"}
Missing == [t |-> "missing", v |-> 0]
DefaultOpts == {Missing, IntV(180), IntV(256), BoolV(TRUE), NoneV}
AliasOpts == {Missing, IntV(255), IntV(-1)}
HoverOpts == {Missing, IntV(255), IntV(300), BoolV(TRUE), StrV(1)}
EnabledOpts == {Missing, BoolV(TRUE), BoolV(FALSE), IntV(1), StrV(2), NoneV}

DictOf(c) == DictP([n \in {m \in FieldNames : c[m] # Missing} |-> c[n]])

DictPayloads ==
    {DictOf(c) : c \in {x \in [FieldNames -> DefaultOpts \cup AliasOpts \cup HoverOpts \cup EnabledOpts] :
                            /\ x["default_alpha"] \in DefaultOpts
                            /\ x["alpha"] \in AliasOpts
                            /\ x["hover_alpha"] \in HoverOpts
                            /\ x["hover_enabled"] \in EnabledOpts}}

ScalarPayloads ==
    {ScalarP(s) : s \in {IntV(-1), IntV(0), IntV(180), IntV(255), IntV(256), BoolV(TRUE),
                         BoolV(FALSE), NoneV, StrV(1), FloatV(100), ListV(3)}}

Payloads == ScalarPayloads \cup DictPayloads

\* payloads of the files with several entries
SmallPayloads ==
    {ScalarP(IntV(180)), ScalarP(StrV(1)),
     to_payload(TransparencyConfig(IntV(180), IntV(255), TRUE)),
     DictP([n \in {"default_alpha"} |-> IntV(256)])}

FileKeys == Keys \cup {""}

RawFiles == {RawFile(kind) : kind \in {"absent", "empty", "blank", "garbage", "nonobj"}}

\* the files of the sessions: any kind, objects of at most MaxFileEntries entries
InitFiles ==
    RawFiles
    \cup {ObjFile(e) : e \in UNION {[S -> SmallPayloads] :
                                     S \in {T \in SUBSET FileKeys : Cardinality(T) <= MaxFileEntries}}}

\* the files a store is constructed over in SpecLoad: any kind, every payload
\* as the only entry, and the files of the sessions
LoadFiles ==
    InitFiles \cup {ObjFile([k \in {key} |-> p]) : key \in FileKeys, p \in Payloads}

\* ------------------------------------------------------------------------
\* State
\* ------------------------------------------------------------------------

VARIABLES
    data,       \* TransparencyStore._data: window key -> TransparencyConfig
    file,       \* content of the settings file (self._path)
    bak,        \* content of the .bak sibling of the settings file
    call,       \* the last call made on the store: its arguments, whether it
                \* returned (ok) and whether the key was stored when it was made
    opened,     \* the file content and .bak content the last call found, when
                \* that call constructed the store
    scenario,   \* progress of the call sequence set_default_alpha on an
                \* absent key, set_hover_alpha, set_hover_enabled, remove
    tmp,        \* content of the .tmp sibling of the settings file
    flush,      \* the flush in progress: its step, the settings file it
                \* found and the document it writes
    windows,    \* the desktop: native handle -> identity key of the window
                \* enumerate_windows reports under it ("" when it reports none)
    alphas,     \* the desktop: native handle -> alpha the window is drawn with
    applied_alphas, \* TransparencyApp.applied_alphas: identity key -> alpha
                \* last applied (None when the key is not in the dict)
    phase,      \* "store": no application, "init": TransparencyApp.__init__
                \* has built the store, "run": the main loop runs
    rec,        \* what the handler that has just run saw and did
    gone,       \* the stored identities the last tick found no window for
    timers,     \* the number of pending root.after(...) timers of the tick
    stack,      \* the handlers running on the Tk thread, innermost last
    outcome,    \* how the body of the last tick ended
    lock,       \* the thread that holds the store's RLock, 0 when it is free
    threads,    \* where each thread is in its call on the store
    serial,     \* the mapping of the calls run one at a time, in lock order
    instances,  \* the stores of the running copies of the tool over one path
    identity,   \* a window, the identity key derived from it, and its split
    held        \* what a caller holds from its last get_config or all

storevars == <<data, file, bak, call, opened, scenario>>
flushvars == <<tmp, flush>>
appvars == <<windows, alphas, applied_alphas, phase, rec, gone>>
loopvars == <<timers, stack, outcome>>
threadvars == <<lock, threads, serial>>
sharedvars == <<instances>>
idvars == <<identity>>
heldvars == <<held>>
latervars == <<threadvars, sharedvars, idvars, heldvars>>

vars == <<data, file, bak, call, opened, scenario, tmp, flush,
          windows, alphas, applied_alphas, phase, rec, gone, timers, stack, outcome,
          latervars>>

\* the variables the calls on the store leave alone: a call runs its flush
\* to the end and leaves no .tmp file, and touches no window
othervars == <<tmp, flush, windows, alphas, applied_alphas, phase, rec, gone,
               timers, stack, outcome, latervars>>

NoFlush == [pc |-> "idle", old |-> AbsentFile, new |-> AbsentFile]

\* native window handles, and the None of a missing one
Handles == {1, 2}
NoHandle == 0

\* the identity of a handle enumerate_windows does not report
NoWindow == ""

\* a window the tool has not touched is drawn opaque
Opaque == MaxAlpha

NoMap == [id \in Keys |-> NoHandle]
NoCalls == [id \in {} |-> [handle |-> NoHandle, alpha |-> NoneV, ok |-> FALSE]]
NoRec ==
    [kind |-> "none", window_map |-> NoMap, hovered_root |-> NoHandle,
     queried |-> FALSE, query_ok |-> TRUE, calls |-> NoCalls]

EmptyCache == [id \in Keys |-> NoneV]

NoApp ==
    /\ windows = [h \in Handles |-> NoWindow]
    /\ alphas = [h \in Handles |-> Opaque]
    /\ applied_alphas = EmptyCache
    /\ phase = "store"
    /\ rec = NoRec
    /\ gone = {}

\* no main loop: no timer, no handler
NoLoop ==
    /\ timers = 0
    /\ stack = <<>>
    /\ outcome = "none"

\* the threads that call the store
Threads == {1, 2}
NoThread == 0

\* a thread outside any call
IdleThread ==
    [pc |-> "idle", op |-> "none", key |-> "", arg |-> NoneV, config |-> NoneV,
     seen |-> EmptyData, prefix |-> EmptyData]

\* no thread calls the store
NoThreads ==
    /\ lock = NoThread
    /\ threads = [t \in Threads |-> IdleThread]
    /\ serial = EmptyData

\* the running copies of the tool
Instances == {1, 2}

\* a store outside any flush: handle names the file its open handle writes to
IdleInstance(d) == [pc |-> "idle", data |-> d, handle |-> "none"]

\* one copy runs: the other store is not modelled
NoInstances == instances = [i \in Instances |-> IdleInstance(EmptyData)]

\* a str is the sequence of its characters; None is not a str
NoneStr == <<"None">>
NoKey == <<>>
NoParts == <<>>

\* no window has been looked at
NoIdentity ==
    identity = [pc |-> "none",
                info |-> [process_path |-> NoneStr, class_name |-> <<>>, title |-> <<>>],
                key |-> NoKey, parts |-> NoParts]

\* a reference to a configuration object: stored tells whether the object
\* is the one the mapping of the store holds
Ref(stored, config) == [stored |-> stored, config |-> config]

\* a mapping the caller holds: own tells whether the dict is its own
Held(own, refs) == [own |-> own, refs |-> refs]

\* the caller holds nothing
NoHeld == held = Held(TRUE, [k \in {} |-> Ref(FALSE, NoneV)])

NoLater ==
    /\ NoThreads
    /\ NoInstances
    /\ NoIdentity
    /\ NoHeld

OtherInit ==
    /\ tmp = AbsentFile
    /\ flush = NoFlush
    /\ NoApp
    /\ NoLoop
    /\ NoLater

Call(op, key, arg, ok) ==
    [op |-> op, key |-> key, arg |-> arg, ok |-> ok,
     present |-> key.t = "str" /\ key.s \in DOMAIN data]

FirstCall == [op |-> "load", key |-> NoneKey, arg |-> NoneV, ok |-> TRUE, present |-> FALSE]

NotOpened == [file |-> AbsentFile, bak |-> AbsentFile]
Opened(f, b) == [file |-> f, bak |-> b]

NoScenario == [stage |-> 0, key |-> "", a |-> NoneV, h |-> NoneV, e |-> FALSE]

Put(d, k, c) == [x \in DOMAIN d \cup {k} |-> IF x = k THEN c ELSE d[x]]

\* a key check that lets the empty string through
validate_key_any_string(key) == key.t = "str"

\* _validate_key
validate_key(key) == key.t = "str" /\ key.s # ""

\* set_default_alpha creating an entry whose hover alpha is fully opaque
set_default_alpha_data_opaque_hover(d, k, alpha) ==
    IF k \notin DOMAIN d
    THEN Put(d, k, TransparencyConfig(alpha, IntV(MaxAlpha), FALSE))
    ELSE Put(d, k, [d[k] EXCEPT !.default_alpha = alpha,
                                !.hover_alpha = IF ~is_valid_alpha(@) THEN alpha ELSE @])

\* set_default_alpha resetting the hover alpha of a stored entry
set_default_alpha_data_resets_hover(d, k, alpha) ==
    IF k \notin DOMAIN d
    THEN Put(d, k, TransparencyConfig(alpha, alpha, FALSE))
    ELSE Put(d, k, [d[k] EXCEPT !.default_alpha = alpha, !.hover_alpha = alpha])

\* the mapping set_default_alpha leaves for a valid key and alpha
set_default_alpha_data(d, k, alpha) ==
    IF k \notin DOMAIN d
    THEN Put(d, k, TransparencyConfig(alpha, alpha, FALSE))
    ELSE Put(d, k, [d[k] EXCEPT !.default_alpha = alpha,
                                !.hover_alpha = IF ~is_valid_alpha(@) THEN alpha ELSE @])

\* set_hover_alpha creating an entry from the fully opaque defaults
set_hover_alpha_data_from_defaults(d, k, alpha) ==
    IF k \notin DOMAIN d
    THEN Put(d, k, TransparencyConfig(IntV(MaxAlpha), alpha, FALSE))
    ELSE Put(d, k, [d[k] EXCEPT !.hover_alpha = alpha])

\* the mapping set_hover_alpha leaves for a valid key and alpha
set_hover_alpha_data(d, k, alpha) ==
    IF k \notin DOMAIN d
    THEN Put(d, k, TransparencyConfig(alpha, alpha, TRUE))
    ELSE Put(d, k, [d[k] EXCEPT !.hover_alpha = alpha])

\* the mapping set_hover_enabled leaves for a valid key and a genuine bool
set_hover_enabled_data(d, k, enabled) ==
    IF k \notin DOMAIN d
    THEN Put(d, k, TransparencyConfig(IntV(MaxAlpha), IntV(MaxAlpha), enabled.v = 1))
    ELSE Put(d, k, [d[k] EXCEPT !.hover_enabled = (enabled.v = 1)])

\* a remove that clears the mapping
remove_data_clear(d, k) == [x \in {} |-> d[k]]

\* the mapping remove leaves: del self._data[window_key]
remove_data(d, k) == [x \in DOMAIN d \ {k} |-> d[x]]

\* the scenario after a call
scenario_next(op, key, arg, ok) ==
    CASE op = "set_default_alpha" /\ ok /\ key.s \notin DOMAIN data ->
            [stage |-> 1, key |-> key.s, a |-> arg, h |-> NoneV, e |-> FALSE]
      [] op = "set_hover_alpha" /\ ok /\ scenario.stage = 1 /\ key.s = scenario.key ->
            [scenario EXCEPT !.stage = 2, !.h = arg]
      [] op = "set_hover_enabled" /\ ok /\ scenario.stage = 2 /\ key.s = scenario.key ->
            [scenario EXCEPT !.stage = 3, !.e = (arg.v = 1)]
      [] op = "remove" /\ ok /\ scenario.stage = 3 /\ key = StrKey(scenario.key) ->
            [scenario EXCEPT !.stage = 4]
      [] OTHER -> NoScenario

\* a setter: validation raises ValueError before anything is touched, else
\* the mapping is updated and flushed under the lock
Setter(op, key, arg, valid, newdata) ==
    /\ IF valid
       THEN /\ data' = newdata
            /\ file' = flush_locked(newdata)
       ELSE /\ data' = data
            /\ file' = file
    /\ bak' = bak
    /\ opened' = NotOpened
    /\ call' = Call(op, key, arg, valid)
    /\ scenario' = scenario_next(op, key, arg, valid)
    /\ UNCHANGED othervars

\* TransparencyStore(path) over a disk with settings file f and .bak b
Construct(f, b) ==
    /\ data = load(f, b).data
    /\ file = load(f, b).file
    /\ bak = load(f, b).bak
    /\ opened = Opened(f, b)
    /\ call = FirstCall
    /\ scenario = NoScenario

Init == OtherInit /\ \E f \in InitFiles : Construct(f, AbsentFile)

\* the .bak sibling may exist already
InitLoad ==
    OtherInit /\ \E f \in LoadFiles, b \in {AbsentFile, RawFile("nonobj")} : Construct(f, b)

\* a fresh TransparencyStore is constructed over the same path
restart ==
    /\ data' = load(file, bak).data
    /\ file' = load(file, bak).file
    /\ bak' = load(file, bak).bak
    /\ opened' = Opened(file, bak)
    /\ call' = FirstCall
    /\ scenario' = NoScenario
    /\ UNCHANGED othervars

set_default_alpha ==
    \E key \in KeyInputs, alpha \in AlphaInputs :
        Setter("set_default_alpha", key, alpha,
               validate_key(key) /\ is_valid_alpha(alpha),
               set_default_alpha_data(data, key.s, alpha))

set_hover_alpha ==
    \E key \in KeyInputs, alpha \in AlphaInputs :
        Setter("set_hover_alpha", key, alpha,
               validate_key(key) /\ is_valid_alpha(alpha),
               set_hover_alpha_data(data, key.s, alpha))

set_hover_enabled ==
    \E key \in KeyInputs, enabled \in EnabledInputs :
        Setter("set_hover_enabled", key, enabled,
               validate_key(key) /\ enabled.t = "bool",
               set_hover_enabled_data(data, key.s, enabled))

remove ==
    \E key \in KeyInputs :
        /\ IF key.t = "str" /\ key.s \in DOMAIN data
           THEN /\ data' = remove_data(data, key.s)
                /\ file' = flush_locked(remove_data(data, key.s))
           ELSE /\ data' = data
                /\ file' = file
        /\ bak' = bak
        /\ opened' = NotOpened
        /\ call' = Call("remove", key, NoneV, TRUE)
        /\ scenario' = scenario_next("remove", key, NoneV, TRUE)
        /\ UNCHANGED othervars

Next ==
    \/ restart
    \/ set_default_alpha
    \/ set_hover_alpha
    \/ set_hover_enabled
    \/ remove

Spec == Init /\ [][Next]_vars

\* the construction of a store over every file content
NextLoad == restart

SpecLoad == InitLoad /\ [][NextLoad]_vars

\* ------------------------------------------------------------------------
\* Vocabulary of the properties
\* ------------------------------------------------------------------------

Setters == {"set_default_alpha", "set_hover_alpha", "set_hover_enabled"}

\* equality of two configurations (Python ==, under which True == 1)
ConfigEq(c1, c2) ==
    /\ c1.default_alpha.v = c2.default_alpha.v
    /\ c1.hover_alpha.v = c2.hover_alpha.v
    /\ c1.hover_enabled = c2.hover_enabled

\* two mappings hold the same keys with equal configurations
DataEq(d1, d2) ==
    /\ DOMAIN d1 = DOMAIN d2
    /\ \A k \in DOMAIN d1 : ConfigEq(d1[k], d2[k])

\* the content f is a JSON object that decodes to exactly the mapping d
FileMirrors(d, f) ==
    /\ f.kind = "obj"
    /\ DOMAIN f.obj = DOMAIN d
    /\ \A k \in DOMAIN d : from_payload_ok(f.obj[k]) /\ ConfigEq(from_payload(f.obj[k]), d[k])

\* the call recorded in c changed the mapping: a setter that returned, or a
\* remove of a stored key
Mutated(c) == (c.op \in Setters /\ c.ok) \/ (c.op = "remove" /\ c.present)

TypeOK ==
    /\ \A k \in DOMAIN data : is_valid_alpha(data[k].default_alpha)
    /\ file.kind \in {"absent", "empty", "blank", "garbage", "nonobj", "obj"}

\* ------------------------------------------------------------------------
\* C1: a store freshly constructed over the settings file holds, for every
\* key, a configuration equal to the one this store holds, and holds no key
\* this store does not hold.
\* ------------------------------------------------------------------------
C1_RoundTrip == DataEq(load(file, bak).data, data)

\* a returned mutation left two keys, one with hover alpha other than its
\* default alpha and hover enabled
C1_Witness ==
    /\ Mutated(call)
    /\ Cardinality(DOMAIN data) = 2
    /\ \E k \in DOMAIN data :
          data[k].hover_alpha.v # data[k].default_alpha.v /\ data[k].hover_enabled

\* ------------------------------------------------------------------------
\* C2: when a mutating call (a setter that returns, a remove of a stored
\* key) has returned, the settings file decodes to exactly the in-memory
\* mapping.
\* ------------------------------------------------------------------------
C2_FileMirrorsAfterMutation == [][Mutated(call') => FileMirrors(data', file')]_vars

\* a setter created a second entry and returned, and the file is the
\* serialization of the two entries
C2_Witness ==
    /\ call.op = "set_hover_enabled" /\ call.ok /\ ~call.present
    /\ Cardinality(DOMAIN data) = 2
    /\ file = flush_locked(data)

\* ------------------------------------------------------------------------
\* C3: a setter call with an empty or non-string key, with an alpha that is
\* not an integer in [0,255], or with an enabled that is not a bool fails
\* with a validation error and leaves the mapping, the settings file and the
\* .bak sibling as they were.
\* ------------------------------------------------------------------------
\* an integer in [0,255]; True and False are integers to Python
IsAlphaArg(x) == x.t \in {"int", "bool"} /\ x.v \in 0..255

InvalidInput(c) ==
    /\ c.op \in Setters
    /\ \/ c.key.t # "str"
       \/ c.key.s = ""
       \/ c.op \in {"set_default_alpha", "set_hover_alpha"} /\ ~IsAlphaArg(c.arg)
       \/ c.op = "set_hover_enabled" /\ c.arg.t # "bool"

C3_InvalidInputRejected ==
    [][InvalidInput(call') => ~call'.ok /\ data' = data /\ file' = file /\ bak' = bak]_vars

\* set_hover_alpha with alpha 256 was rejected on a stored key
C3_Witness ==
    /\ call.op = "set_hover_alpha" /\ call.arg = IntV(256) /\ ~call.ok
    /\ call.present
    /\ data[call.key.s].hover_alpha.v # 256

\* ------------------------------------------------------------------------
\* C4 as stated: on an absent key every setter creates {255, 255, false}
\* and changes only its own field.
\* ------------------------------------------------------------------------
DefaultConfig == TransparencyConfig(IntV(255), IntV(255), FALSE)

OnlyTargetedField(op, arg) ==
    CASE op = "set_default_alpha" -> [DefaultConfig EXCEPT !.default_alpha = arg]
      [] op = "set_hover_alpha" -> [DefaultConfig EXCEPT !.hover_alpha = arg]
      [] OTHER -> [DefaultConfig EXCEPT !.hover_enabled = (arg.v = 1)]

C4_AsStated ==
    [][(call'.op \in Setters /\ call'.ok /\ call'.key.s \notin DOMAIN data)
        => ConfigEq(data'[call'.key.s], OnlyTargetedField(call'.op, call'.arg))]_vars

\* C4 amended: on an absent key set_default_alpha(key, a) yields {a, a,
\* false}, set_hover_alpha(key, a) yields {a, a, true} and
\* set_hover_enabled(key, e) yields {255, 255, e}.
CreatedConfig(op, arg) ==
    CASE op = "set_default_alpha" -> TransparencyConfig(arg, arg, FALSE)
      [] op = "set_hover_alpha" -> TransparencyConfig(arg, arg, TRUE)
      [] OTHER -> TransparencyConfig(IntV(255), IntV(255), arg.v = 1)

C4_CreatedOnAbsentKey ==
    [][(call'.op \in Setters /\ call'.ok /\ call'.key.s \notin DOMAIN data)
        => ConfigEq(data'[call'.key.s], CreatedConfig(call'.op, call'.arg))]_vars

\* set_hover_alpha(key, 180) returned on a key that was absent
C4_Witness ==
    /\ call.op = "set_hover_alpha" /\ call.ok /\ ~call.present
    /\ call.arg = IntV(180)
    /\ call.key.s \in DOMAIN data

\* ------------------------------------------------------------------------
\* C5: set_default_alpha(key, a) on an absent key yields {a, a, false}; a
\* following set_hover_alpha(key, h) and set_hover_enabled(key, e) yield
\* {a, h, e}; a following remove(key) makes the key absent.
\* ------------------------------------------------------------------------
C5_Example ==
    /\ scenario.stage = 1 =>
          /\ scenario.key \in DOMAIN data
          /\ ConfigEq(data[scenario.key], TransparencyConfig(scenario.a, scenario.a, FALSE))
    /\ scenario.stage = 3 =>
          /\ scenario.key \in DOMAIN data
          /\ ConfigEq(data[scenario.key], TransparencyConfig(scenario.a, scenario.h, scenario.e))
    /\ scenario.stage = 4 => scenario.key \notin DOMAIN data

\* the sequence of the example ran to its remove, with a = 180, h = 255 and
\* hover enabled
C5_Witness ==
    /\ scenario.stage = 4
    /\ scenario.a = IntV(180) /\ scenario.h = IntV(255) /\ scenario.e

\* ------------------------------------------------------------------------
\* C6: on a stored key a setter that returns changes only its own field of
\* that key's configuration, and leaves every other key and the key set
\* unchanged.
\* ------------------------------------------------------------------------
C6_OnlyTargetedFieldChanges ==
    [][(call'.op \in Setters /\ call'.ok /\ call'.key.s \in DOMAIN data) =>
        LET k == call'.key.s
            expected ==
                CASE call'.op = "set_default_alpha" -> [data[k] EXCEPT !.default_alpha = call'.arg]
                  [] call'.op = "set_hover_alpha" -> [data[k] EXCEPT !.hover_alpha = call'.arg]
                  [] OTHER -> [data[k] EXCEPT !.hover_enabled = (call'.arg.v = 1)]
        IN /\ DOMAIN data' = DOMAIN data
           /\ ConfigEq(data'[k], expected)
           /\ \A x \in DOMAIN data \ {k} : data'[x] = data[x]]_vars

\* set_default_alpha(key, 180) returned on a stored key whose hover alpha is
\* 255, next to another stored key
C6_Witness ==
    /\ call.op = "set_default_alpha" /\ call.ok /\ call.present
    /\ call.arg = IntV(180)
    /\ data[call.key.s].hover_alpha = IntV(255)
    /\ Cardinality(DOMAIN data) = 2

\* ------------------------------------------------------------------------
\* C7: remove of an absent key returns and changes neither the mapping nor
\* the settings file (an absent file stays absent); remove of a stored key
\* deletes exactly that entry from the mapping and from the file, which
\* stays a JSON object; a second remove of the key changes nothing.
\* ------------------------------------------------------------------------
Without(d, k) == [x \in DOMAIN d \ {k} |-> d[x]]

C7_Remove ==
    [][call'.op = "remove" =>
        /\ call'.ok
        /\ IF call'.key.t = "str" /\ call'.key.s \in DOMAIN data
           THEN /\ data' = Without(data, call'.key.s)
                /\ FileMirrors(data', file')
           ELSE /\ data' = data
                /\ file' = file
        /\ ~(call'.key.t = "str" /\ call'.key.s \in DOMAIN data')]_vars

\* remove deleted one of two stored keys
C7_Witness ==
    /\ call.op = "remove" /\ call.present
    /\ call.key.s \notin DOMAIN data
    /\ Cardinality(DOMAIN data) = 1
    /\ file.kind = "obj"

\* ------------------------------------------------------------------------
\* C8 as stated: constructing a store over a file that is garbage, empty,
\* whitespace only or a JSON value other than an object yields an empty
\* mapping, a .bak sibling holding the original content, and a settings
\* file holding an empty JSON object.
\* ------------------------------------------------------------------------
Recovered ==
    /\ call.ok
    /\ data = EmptyData
    /\ bak = opened.file
    /\ file = ObjFile(NoEntries)

C9_InvalidEntriesDropped ==
    (call.op = "load" /\ opened.file.kind = "obj") =>
        /\ call.ok
        /\ DOMAIN data = {k \in DOMAIN opened.file.obj : from_payload_ok(opened.file.obj[k])}
        /\ \A k \in DOMAIN data : data[k] = from_payload(opened.file.obj[k])
        /\ file = opened.file
        /\ bak = opened.bak

\* a store was constructed over an object with an entry that coerces and an
\* entry that does not
C9_Witness ==
    /\ call.op = "load" /\ opened.file.kind = "obj"
    /\ \E k1, k2 \in DOMAIN opened.file.obj :
          /\ from_payload_ok(opened.file.obj[k1]) /\ k1 \in DOMAIN data
          /\ ~from_payload_ok(opened.file.obj[k2]) /\ k2 \notin DOMAIN data

\* ------------------------------------------------------------------------
\* C10: the coercion follows the stated rules for every payload: a bare
\* integer n in [0,255] gives {n, n, false}; a record gives default alpha
\* from default_alpha or else from alpha, hover alpha from hover_alpha when
\* that is an integer in [0,255] and else the default alpha, hover-enabled
\* from hover_enabled and false when missing; every other shape and every
\* record whose default alpha is missing or outside [0,255] fails.
\* ------------------------------------------------------------------------
RuleInt(x) == x.t = "int" /\ x.v \in 0..255

RuleDefault(p) ==
    IF "default_alpha" \in DOMAIN p.f THEN p.f["default_alpha"]
    ELSE IF "alpha" \in DOMAIN p.f THEN p.f["alpha"] ELSE Missing

RuleHover(p) ==
    IF "hover_alpha" \in DOMAIN p.f /\ RuleInt(p.f["hover_alpha"]) THEN p.f["hover_alpha"]
    ELSE RuleDefault(p)

RuleOk(p) ==
    CASE p.t = "int" -> RuleInt(p)
      [] p.t = "dict" -> RuleInt(RuleDefault(p))
      [] OTHER -> FALSE

\* the rules fix the flag when hover_enabled is missing or a boolean
RuleAgrees(p, c) ==
    IF p.t = "int"
    THEN c.default_alpha.v = p.v /\ c.hover_alpha.v = p.v /\ ~c.hover_enabled
    ELSE /\ c.default_alpha.v = RuleDefault(p).v
         /\ c.hover_alpha.v = RuleHover(p).v
         /\ "hover_enabled" \notin DOMAIN p.f => ~c.hover_enabled
         /\ ("hover_enabled" \in DOMAIN p.f /\ p.f["hover_enabled"].t = "bool")
               => (c.hover_enabled <=> p.f["hover_enabled"].v = 1)

C10_CoercionRules ==
    (call.op = "load" /\ opened.file.kind = "obj") =>
        \A k \in DOMAIN opened.file.obj :
            IF RuleOk(opened.file.obj[k])
            THEN k \in DOMAIN data /\ RuleAgrees(opened.file.obj[k], data[k])
            ELSE k \notin DOMAIN data

\* ------------------------------------------------------------------------
\* C11: in every state of a store every stored configuration has a default
\* alpha and a hover alpha in [0,255] and a boolean hover-enabled flag, and
\* every stored key is a non-empty string.
\* ------------------------------------------------------------------------
AlphaInRange(x) == x.v \in 0..255

C11_StoredConfigsValid ==
    \A k \in DOMAIN data :
        /\ k # ""
        /\ AlphaInRange(data[k].default_alpha)
        /\ AlphaInRange(data[k].hover_alpha)
        /\ data[k].hover_enabled \in BOOLEAN

\* ------------------------------------------------------------------------
\* _flush_locked step by step, with crashes of the process
\* ------------------------------------------------------------------------

\* a document cut short by a crash in the middle of write_text
PartialFile == RawFile("partial")

\* a flush that writes the document straight into the settings file
flush_write_in_place(f, t, doc) == [file |-> doc, tmp |-> t]

\* temp_path.write_text(serialized): the document goes to the .tmp sibling
flush_write(f, t, doc) == [file |-> f, tmp |-> doc]

\* temp_path.replace(self._path): the .tmp sibling is moved onto the target
flush_replace(f, t) == [file |-> t, tmp |-> AbsentFile]

\* the settings files the crash sessions start over
CrashFiles ==
    {AbsentFile, RawFile("garbage"),
     ObjFile([k \in {"A"} |-> to_payload(TransparencyConfig(IntV(180), IntV(255), TRUE))])}

\* the mutations of the crash sessions: the mapping each leaves in memory
CrashMutations(d) ==
    {set_default_alpha_data(d, k, a) : k \in Keys, a \in {IntV(180), IntV(255)}}
    \cup {set_hover_enabled_data(d, k, BoolV(TRUE)) : k \in Keys}
    \cup {remove_data(d, k) : k \in DOMAIN d}

InitCrash ==
    /\ \E f \in CrashFiles : Construct(f, AbsentFile)
    /\ NoApp
    /\ NoLoop
    /\ NoLater
    /\ tmp = AbsentFile
    /\ flush = [pc |-> "idle", old |-> file, new |-> file]

\* a setter or remove has changed the mapping and enters _flush_locked
mutate_begin ==
    /\ flush.pc \in {"idle", "recovered"}
    /\ \E d \in CrashMutations(data) :
          /\ data' = d
          /\ flush' = [pc |-> "write", old |-> file, new |-> flush_locked(d)]
    /\ UNCHANGED <<file, bak, tmp, call, opened, scenario, appvars, loopvars, latervars>>

\* the first step of the flush: the whole document is written
write_tmp ==
    /\ flush.pc = "write"
    /\ file' = flush_write(file, tmp, flush_locked(data)).file
    /\ tmp' = flush_write(file, tmp, flush_locked(data)).tmp
    /\ flush' = [flush EXCEPT !.pc = "replace"]
    /\ UNCHANGED <<data, bak, call, opened, scenario, appvars, loopvars, latervars>>

\* the second step of the flush, after which the call returns
replace_tmp ==
    /\ flush.pc = "replace"
    /\ file' = flush_replace(file, tmp).file
    /\ tmp' = flush_replace(file, tmp).tmp
    /\ flush' = [flush EXCEPT !.pc = "idle"]
    /\ UNCHANGED <<data, bak, call, opened, scenario, appvars, loopvars, latervars>>

\* the process dies and the mapping in memory is lost: before the flush,
\* between its steps or after it, or inside write_text, which then leaves
\* the file it was writing truncated or cut short
crash ==
    /\ flush.pc \in {"idle", "recovered", "write", "replace"}
    /\ \/ UNCHANGED <<file, tmp>>
       \/ /\ flush.pc = "write"
          /\ \E cut \in {RawFile("empty"), PartialFile} :
                /\ file' = flush_write(file, tmp, cut).file
                /\ tmp' = flush_write(file, tmp, cut).tmp
    /\ data' = EmptyData
    /\ flush' = [flush EXCEPT !.pc = "crashed"]
    /\ UNCHANGED <<bak, call, opened, scenario, appvars, loopvars, latervars>>

\* a store is constructed over the files the crash left
recover ==
    /\ flush.pc = "crashed"
    /\ data' = load(file, bak).data
    /\ file' = load(file, bak).file
    /\ bak' = load(file, bak).bak
    /\ flush' = [flush EXCEPT !.pc = "recovered"]
    /\ UNCHANGED <<tmp, call, opened, scenario, appvars, loopvars, latervars>>

NextCrash ==
    \/ mutate_begin
    \/ write_tmp
    \/ replace_tmp
    \/ crash
    \/ recover

SpecCrash == InitCrash /\ [][NextCrash]_vars

\* ------------------------------------------------------------------------
\* C12: whenever the process crashes before, between or after the two steps
\* of a flush (write the .tmp sibling, move it onto the target), the settings
\* file is the whole document the flush found or the whole document it
\* writes, never a document cut short, and the store constructed after the
\* crash holds the mapping of one of the two.
\* ------------------------------------------------------------------------
C12_CrashSafe ==
    /\ file \in {flush.old, flush.new}
    /\ file # PartialFile
    /\ flush.pc = "recovered" =>
          \/ DataEq(data, load(flush.old, bak).data)
          \/ DataEq(data, load(flush.new, bak).data)

\* a store recovered the old mapping after a crash that cut the .tmp file
\* short
C12_Witness ==
    /\ flush.pc = "recovered"
    /\ tmp = PartialFile
    /\ flush.old # flush.new
    /\ file = flush.old
    /\ DataEq(data, load(flush.old, bak).data)
    /\ data # EmptyData

\* ------------------------------------------------------------------------
\* TransparencyApp: start-up, the hover monitor tick, apply and reset, over
\* a desktop whose windows open, close and change title
\* ------------------------------------------------------------------------

\* the values the controls hold when "apply" is pressed
AppControls ==
    {TransparencyConfig(IntV(180), IntV(255), TRUE),
     TransparencyConfig(IntV(255), IntV(180), FALSE)}

\* the mappings the settings file holds when the application starts
AppData == UNION {[S -> AppControls] : S \in SUBSET Keys}

\* window_map = {info.identity_key: info for info in windows}: one window
\* per identity; of several windows with one identity the one that comes
\* last in the enumeration, an order the desktop decides
window_maps(w) ==
    {m \in [Keys -> Handles \cup {NoHandle}] :
        \A id \in Keys :
            IF \E h \in Handles : w[h] = id
            THEN m[id] # NoHandle /\ w[m[id]] = id
            ELSE m[id] = NoHandle}

\* a target that takes the hover alpha whether or not hover is enabled
target_alpha_ignores_enabled(config, handle, hovered_root) ==
    IF hovered_root # NoHandle /\ handle = hovered_root
    THEN config.hover_alpha
    ELSE config.default_alpha

\* target_alpha of _apply_hover_states
target_alpha(config, handle, hovered_root) ==
    IF config.hover_enabled /\ hovered_root # NoHandle /\ handle = hovered_root
    THEN config.hover_alpha
    ELSE config.default_alpha

\* a tick that calls the actuator for every window it finds
needs_call_always(previous_alpha, target) == TRUE

\* previous_alpha == target_alpha skips the call (None equals no alpha)
needs_call(previous_alpha, target) ==
    ~(previous_alpha.t # "none" /\ previous_alpha.v = target.v)

\* a cache that records the target before the call has succeeded
applied_entry_regardless(previous_alpha, target, called, ok) ==
    IF called THEN target ELSE previous_alpha

\* the cache entry after the try block around set_window_transparency
applied_entry(previous_alpha, target, called, ok) ==
    IF called /\ ok THEN target ELSE previous_alpha

\* a tick that asks for the cursor whatever the settings say
hover_queried_always(settings) == TRUE

\* any(config.hover_enabled for config in settings.values())
hover_queried(settings) == \E k \in DOMAIN settings : settings[k].hover_enabled

\* the identities of the loop that have a window in window_map
Live(settings, window_map) == {id \in DOMAIN settings \cap Keys : window_map[id] # NoHandle}

\* the identities the loop calls set_window_transparency for
Called(settings, cache, window_map, hovered_root) ==
    {id \in Live(settings, window_map) :
        needs_call(cache[id], target_alpha(settings[id], window_map[id], hovered_root))}

\* _apply_hover_states over the settings, the cache and the desktop, given
\* the window map, the hover target and the identities whose call raises
apply_hover_states(settings, cache, al, window_map, hovered_root, fails) ==
    LET target(id) == target_alpha(settings[id], window_map[id], hovered_root)
        called == Called(settings, cache, window_map, hovered_root)
    IN  IF DOMAIN settings = {}
        THEN [cache |-> EmptyCache, alphas |-> al, calls |-> NoCalls]
        ELSE [cache |->
                 [id \in Keys |->
                     IF id \notin DOMAIN settings THEN cache[id]
                     ELSE IF window_map[id] = NoHandle THEN NoneV
                     ELSE applied_entry(cache[id], target(id), id \in called, id \notin fails)],
              alphas |->
                 [h \in Handles |->
                     IF \E id \in called \ fails : window_map[id] = h
                     THEN target(CHOOSE id \in called \ fails : window_map[id] = h).v
                     ELSE al[h]],
              calls |->
                 [id \in called |->
                     [handle |-> window_map[id], alpha |-> target(id), ok |-> id \notin fails]]]

\* _auto_apply_saved_settings: the default alpha of every stored identity
\* that has a window
auto_apply(settings, cache, al, window_map, fails) ==
    LET called == Live(settings, window_map)
    IN  [cache |->
            [id \in Keys |->
                IF id \in called \ fails THEN settings[id].default_alpha ELSE cache[id]],
         alphas |->
            [h \in Handles |->
                IF \E id \in called \ fails : window_map[id] = h
                THEN settings[CHOOSE id \in called \ fails : window_map[id] = h].default_alpha.v
                ELSE al[h]],
         calls |->
            [id \in called |->
                [handle |-> window_map[id], alpha |-> settings[id].default_alpha,
                 ok |-> id \notin fails]]]

\* the three setter calls of _apply_transparency
apply_data(d, id, c) ==
    set_hover_enabled_data(
        set_hover_alpha_data(set_default_alpha_data(d, id, c.default_alpha), id, c.hover_alpha),
        id, BoolV(c.hover_enabled))

\* TransparencyApp.__init__ has constructed the store; windows of earlier
\* sessions may still be drawn with the alpha they were given
InitApp ==
    /\ \E d \in AppData : Construct(flush_locked(d), AbsentFile)
    /\ tmp = AbsentFile
    /\ flush = NoFlush
    /\ windows \in [Handles -> Keys \cup {NoWindow}]
    /\ alphas \in [Handles -> {180, Opaque}]
    /\ \A h \in Handles : windows[h] = NoWindow => alphas[h] = Opaque
    /\ applied_alphas = EmptyCache
    /\ phase = "init"
    /\ rec = NoRec
    /\ gone = {}
    /\ NoLoop
    /\ NoLater

\* what the cursor query of a tick yields: nothing when it is not made or
\* get_cursor_position raises OSError, else the root window under the cursor
HoverResults(settings) ==
    IF DOMAIN settings # {} /\ hover_queried(settings)
    THEN {[queried |-> TRUE, query_ok |-> FALSE, hovered_root |-> NoHandle]}
         \cup {[queried |-> TRUE, query_ok |-> TRUE, hovered_root |-> h] :
                  h \in Handles \cup {NoHandle}}
    ELSE {[queried |-> FALSE, query_ok |-> TRUE, hovered_root |-> NoHandle]}

\* _auto_apply_saved_settings and _start_hover_monitor, the end of __init__
auto_apply_saved_settings ==
    /\ phase = "init"
    /\ \E wm \in window_maps(windows) :
          \E fails \in SUBSET Live(data, wm) :
              LET out == auto_apply(data, applied_alphas, alphas, wm, fails)
              IN  /\ applied_alphas' = out.cache
                  /\ alphas' = out.alphas
                  /\ rec' = [NoRec EXCEPT !.kind = "auto", !.window_map = wm,
                                          !.calls = out.calls]
    /\ phase' = "run"
    /\ UNCHANGED <<storevars, flushvars, windows, gone, loopvars, latervars>>

\* _hover_monitor_tick: one run of _apply_hover_states
hover_monitor_tick ==
    /\ phase = "run"
    /\ \E wm \in IF DOMAIN data = {} THEN {NoMap} ELSE window_maps(windows),
          q \in HoverResults(data) :
          \E fails \in SUBSET Called(data, applied_alphas, wm, q.hovered_root) :
              LET out == apply_hover_states(data, applied_alphas, alphas, wm,
                                            q.hovered_root, fails)
              IN  /\ applied_alphas' = out.cache
                  /\ alphas' = out.alphas
                  /\ rec' = [kind |-> "tick", window_map |-> wm,
                             hovered_root |-> q.hovered_root, queried |-> q.queried,
                             query_ok |-> q.query_ok, calls |-> out.calls]
                  /\ gone' = (DOMAIN data \cap Keys) \ Live(data, wm)
    /\ UNCHANGED <<storevars, flushvars, windows, phase, loopvars, latervars>>

\* "apply" with selected_window = (handle, identity), an entry of an earlier
\* enumeration, and the controls at c: set_window_transparency raises when
\* the handle is no window any more, and may raise otherwise; then nothing
\* is stored
apply_transparency ==
    /\ phase = "run"
    /\ \/ UNCHANGED <<alphas, data, file, applied_alphas>>
       \/ \E handle \in {h \in Handles : windows[h] # NoWindow}, id \in Keys,
             c \in AppControls, hovered \in BOOLEAN :
             LET target == IF c.hover_enabled /\ hovered
                           THEN c.hover_alpha ELSE c.default_alpha
             IN  /\ hovered => c.hover_enabled
                 /\ alphas' = [alphas EXCEPT ![handle] = target.v]
                 /\ data' = apply_data(data, id, c)
                 /\ file' = flush_locked(apply_data(data, id, c))
                 /\ applied_alphas' = [applied_alphas EXCEPT ![id] = target]
    /\ rec' = NoRec
    /\ UNCHANGED <<bak, call, opened, scenario, flushvars, windows, phase, gone, loopvars, latervars>>

\* what a reset of the identity id did: remove_layered_style on the handle
\* returned (ok) or raised
ResetRec(id, handle, ok) ==
    [NoRec EXCEPT !.kind = "reset",
                  !.calls = [i \in {id} |-> [handle |-> handle, alpha |-> NoneV, ok |-> ok]]]

\* a reset that leaves the cache alone
reset_cache_kept(cache, id) == cache

\* self.applied_alphas.pop(identity, None)
reset_cache(cache, id) == [cache EXCEPT ![id] = NoneV]

\* "reset" with selected_window = (handle, identity): the layered style is
\* taken off the window when the handle still is one, the entry and the
\* cache entry are dropped
reset_transparency ==
    /\ phase = "run"
    /\ \E id \in Keys :
          /\ \/ /\ alphas' = alphas
                /\ rec' = ResetRec(id, NoHandle, FALSE)
             \/ \E handle \in {h \in Handles : windows[h] # NoWindow} :
                   /\ alphas' = [alphas EXCEPT ![handle] = Opaque]
                   /\ rec' = ResetRec(id, handle, TRUE)
          /\ data' = IF id \in DOMAIN data THEN remove_data(data, id) ELSE data
          /\ file' = IF id \in DOMAIN data THEN flush_locked(remove_data(data, id)) ELSE file
          /\ applied_alphas' = reset_cache(applied_alphas, id)
    /\ UNCHANGED <<bak, call, opened, scenario, flushvars, windows, phase, gone, loopvars, latervars>>

\* a new window appears under a free handle, drawn opaque
open_window ==
    /\ \E h \in Handles, id \in Keys :
          /\ windows[h] = NoWindow
          /\ windows' = [windows EXCEPT ![h] = id]
          /\ alphas' = [alphas EXCEPT ![h] = Opaque]
    /\ rec' = NoRec
    /\ UNCHANGED <<storevars, flushvars, applied_alphas, phase, gone, loopvars, latervars>>

\* a window is closed
close_window ==
    /\ \E h \in Handles :
          /\ windows[h] # NoWindow
          /\ windows' = [windows EXCEPT ![h] = NoWindow]
          /\ alphas' = [alphas EXCEPT ![h] = Opaque]
    /\ rec' = NoRec
    /\ UNCHANGED <<storevars, flushvars, applied_alphas, phase, gone, loopvars, latervars>>

\* a window changes its title and with it its identity key
retitle_window ==
    /\ \E h \in Handles, id \in Keys :
          /\ windows[h] \notin {NoWindow, id}
          /\ windows' = [windows EXCEPT ![h] = id]
    /\ rec' = NoRec
    /\ UNCHANGED <<storevars, flushvars, alphas, applied_alphas, phase, gone, loopvars, latervars>>

NextApp ==
    \/ auto_apply_saved_settings
    \/ hover_monitor_tick
    \/ apply_transparency
    \/ reset_transparency
    \/ open_window
    \/ close_window
    \/ retitle_window

SpecApp == InitApp /\ [][NextApp]_vars

\* ------------------------------------------------------------------------
\* Vocabulary of the properties of the tick
\* ------------------------------------------------------------------------

\* the handler that has just run is a tick
Ticked(r) == r.kind = "tick"

\* no call of the handler raised
NoCallFailed(r) == \A id \in DOMAIN r.calls : r.calls[id].ok

\* the target alpha of a stored identity in the tick of record r
TargetOf(settings, r, id) == target_alpha(settings[id], r.window_map[id], r.hovered_root)

\* ------------------------------------------------------------------------
\* C13: at the end of every tick in which no actuator call failed, every
\* stored identity that has a window in the tick's enumeration is drawn with
\* its target alpha (the hover alpha if hover is enabled and the window is
\* the hover target, else the default alpha), whatever the desktop did
\* between the ticks: a window replaced by another of the same identity and
\* a different handle, or another of two windows of one identity coming last.
\* ------------------------------------------------------------------------
C13_Convergence ==
    Ticked(rec) /\ NoCallFailed(rec) =>
        \A id \in Live(data, rec.window_map) :
            alphas[rec.window_map[id]] = TargetOf(data, rec, id).v

\* ------------------------------------------------------------------------
\* C14: when a stored identity had no window at a tick and a window with
\* that identity, under any handle, is in the enumeration of a later tick,
\* the first such tick calls the actuator for it with its target alpha
\* (unless an apply action has given that very window its target alpha in
\* the meantime); and at start-up the actuator is called with the default
\* alpha for every stored identity that has a window.
\* ------------------------------------------------------------------------
C14_Reapplied ==
    [][/\ Ticked(rec') =>
            \A id \in gone \cap Live(data', rec'.window_map) :
                \/ /\ id \in DOMAIN rec'.calls
                   /\ rec'.calls[id].alpha = TargetOf(data', rec', id)
                \/ alphas[rec'.window_map[id]] = TargetOf(data', rec', id).v
       /\ rec'.kind = "auto" =>
            \A id \in Live(data', rec'.window_map) :
                /\ id \in DOMAIN rec'.calls
                /\ rec'.calls[id].handle = rec'.window_map[id]
                /\ rec'.calls[id].alpha = data'[id].default_alpha]_vars

\* ------------------------------------------------------------------------
\* C15: every actuator call of a tick is made on the window the enumeration
\* holds for the identity, and passes the hover alpha if the configuration
\* has hover enabled and that window's handle is the hover target of the
\* tick, and the default alpha in every other case (hover disabled, no hover
\* target, or another window hovered).
\* ------------------------------------------------------------------------
Hovered(c, handle, r) ==
    c.hover_enabled /\ r.hovered_root # NoHandle /\ handle = r.hovered_root

C15_TargetAlpha ==
    Ticked(rec) =>
        \A id \in DOMAIN rec.calls :
            /\ id \in DOMAIN data
            /\ rec.calls[id].handle = rec.window_map[id]
            /\ Hovered(data[id], rec.calls[id].handle, rec) =>
                  rec.calls[id].alpha = data[id].hover_alpha
            /\ ~Hovered(data[id], rec.calls[id].handle, rec) =>
                  rec.calls[id].alpha = data[id].default_alpha

\* a tick called the actuator for two identities: with the hover alpha for
\* the hovered window, with the default alpha for the other
C15_Witness ==
    /\ Ticked(rec)
    /\ \E id1, id2 \in DOMAIN rec.calls :
          /\ Hovered(data[id1], rec.calls[id1].handle, rec)
          /\ rec.calls[id1].alpha = data[id1].hover_alpha
          /\ data[id1].hover_alpha # data[id1].default_alpha
          /\ data[id2].hover_enabled
          /\ ~Hovered(data[id2], rec.calls[id2].handle, rec)
          /\ rec.calls[id2].alpha = data[id2].default_alpha

\* ------------------------------------------------------------------------
\* C16: a tick calls the actuator for an identity if and only if the
\* identity is stored, has a window in the enumeration and its target alpha
\* differs from the cached value (or none is cached). Hence, of consecutive
\* ticks with the same settings, the same windows and the same hover target,
\* every tick after the first makes no call and leaves the cache unchanged.
\* ------------------------------------------------------------------------

\* the tick of rec' calls for exactly the identities whose target is not
\* the value cached before it
OnlyDeltas ==
    Ticked(rec') =>
        \A id \in Keys :
            id \in DOMAIN rec'.calls <=>
                /\ id \in Live(data, rec'.window_map)
                /\ \/ applied_alphas[id] = NoneV
                   \/ applied_alphas[id].v # TargetOf(data, rec', id).v

\* a tick follows a tick and sees the same windows and the same hover target
SameTickAgain ==
    /\ Ticked(rec)
    /\ Ticked(rec')
    /\ rec'.window_map = rec.window_map
    /\ rec'.hovered_root = rec.hovered_root

Quiet == DOMAIN rec'.calls = {} /\ applied_alphas' = applied_alphas

\* as stated: the second of two such ticks is quiet
C16_AsStated == [][OnlyDeltas /\ (SameTickAgain => Quiet)]_vars

\* the second of two such ticks is quiet when no call of the first failed
C16_OnlyDeltas == [][OnlyDeltas /\ (SameTickAgain /\ NoCallFailed(rec) => Quiet)]_vars

\* a tick found the cached value of a stored identity with a window equal
\* to its target and called nothing
C16_Witness ==
    /\ Ticked(rec)
    /\ DOMAIN rec.calls = {}
    /\ \E id \in Live(data, rec.window_map) :
          /\ applied_alphas[id] = TargetOf(data, rec, id)
          /\ alphas[rec.window_map[id]] = applied_alphas[id].v

\* ------------------------------------------------------------------------
\* C17: when the actuator call for an identity fails in a tick, the tick
\* goes on: the cache entry of that identity stays as it was (absent or the
\* old value), every other identity that needs a call still gets it, and
\* the next tick, if it finds the same window with the same target, makes
\* the call again; a call that succeeds leaves the target in the cache and
\* on the window.
\* ------------------------------------------------------------------------
Failed(r) == {id \in DOMAIN r.calls : ~r.calls[id].ok}

C17_FailureIsRetried ==
    [][Ticked(rec') =>
          /\ \A id \in DOMAIN rec'.calls :
                IF rec'.calls[id].ok
                THEN /\ applied_alphas'[id] = rec'.calls[id].alpha
                     /\ alphas'[rec'.calls[id].handle] = rec'.calls[id].alpha.v
                ELSE applied_alphas'[id] = applied_alphas[id]
          /\ \A id \in Live(data, rec'.window_map) :
                needs_call(applied_alphas[id], TargetOf(data, rec', id)) =>
                    id \in DOMAIN rec'.calls
          /\ Ticked(rec) =>
                \A id \in Failed(rec) :
                    /\ rec'.window_map[id] = rec.window_map[id]
                    /\ TargetOf(data, rec', id) = rec.calls[id].alpha
                    => /\ id \in DOMAIN rec'.calls
                       /\ rec'.calls[id].alpha = rec.calls[id].alpha]_vars

\* in one tick the call for one identity failed, its cache entry still
\* differs from its target, and the call for the other identity succeeded
C17_Witness ==
    /\ Ticked(rec)
    /\ \E id1, id2 \in DOMAIN rec.calls :
          /\ ~rec.calls[id1].ok
          /\ applied_alphas[id1] # NoneV
          /\ applied_alphas[id1] # rec.calls[id1].alpha
          /\ rec.calls[id2].ok
          /\ applied_alphas[id2] = rec.calls[id2].alpha

\* ------------------------------------------------------------------------
\* C18: a tick asks for the cursor and the hover target only if some stored
\* configuration has hover enabled, and then always, whatever happened to
\* the query of the tick before; when the query fails the tick goes on with
\* no hover target, so that every stored identity with a window has its
\* default alpha as target, and no stored configuration is changed.
\* ------------------------------------------------------------------------
C18_HoverQuery ==
    [][Ticked(rec') =>
          /\ rec'.queried <=> \E k \in DOMAIN data : data[k].hover_enabled
          /\ rec'.queried /\ ~rec'.query_ok =>
                /\ rec'.hovered_root = NoHandle
                /\ \A id \in Live(data, rec'.window_map) :
                      IF needs_call(applied_alphas[id], data[id].default_alpha)
                      THEN /\ id \in DOMAIN rec'.calls
                           /\ rec'.calls[id].alpha = data[id].default_alpha
                      ELSE id \notin DOMAIN rec'.calls
          /\ data' = data
          /\ file' = file]_vars

\* the query of a tick failed and a window whose configuration has hover
\* enabled was given its default alpha
C18_Witness ==
    /\ Ticked(rec)
    /\ rec.queried
    /\ ~rec.query_ok
    /\ \E id \in DOMAIN rec.calls :
          /\ data[id].hover_enabled
          /\ data[id].hover_alpha # data[id].default_alpha
          /\ rec.calls[id].ok
          /\ alphas[rec.calls[id].handle] = data[id].default_alpha.v

\* ------------------------------------------------------------------------
\* The Tk main loop: the tick timer and the handlers, step by step, over a
\* desktop of one window
\* ------------------------------------------------------------------------

\* the controls as __init__ creates them
NoControls == TransparencyConfig(IntV(MaxAlpha), IntV(MaxAlpha), FALSE)

Frame(h, pc, handle, id, c) ==
    [h |-> h, pc |-> pc, handle |-> handle, id |-> id, c |-> c,
     alpha |-> NoneV, done |-> 0]

\* _hover_monitor_tick inside its try block
TickFrame == Frame("tick", "body", NoHandle, NoWindow, NoControls)

Top == stack[Len(stack)]
Pop == SubSeq(stack, 1, Len(stack) - 1)
SetTop(f) == [stack EXCEPT ![Len(stack)] = f]

\* the desktop of the main-loop sessions
LoopWindows == [h \in Handles |-> IF h = 1 THEN "A" ELSE NoWindow]
LoopMap == [id \in Keys |-> IF id = "A" THEN 1 ELSE NoHandle]

\* selected_window when a button is pressed; handle NoHandle stands for None
Selections == {[handle |-> NoHandle, id |-> NoWindow], [handle |-> 1, id |-> "A"]}

\* a loop that lets a due timer fire while a handler is running
loop_running_always(st) == TRUE

\* Tk calls a handler from mainloop when no handler runs, and from the
\* local loop of a modal message box
loop_running(st) == IF st = <<>> THEN TRUE ELSE st[Len(st)].pc = "dialog"

\* a tick that re-arms its timer after the try block, not in a finally
rearm_unless_raised(n, how) == IF how = "raised" THEN n ELSE n + 1

\* finally: self.root.after(self.HOVER_POLL_MS, self._hover_monitor_tick)
rearm(n, how) == n + 1

\* __init__ has run to its end: the saved settings are applied and
\* _start_hover_monitor has armed the first timer
InitLoop ==
    /\ \E d \in AppData : Construct(flush_locked(d), AbsentFile)
    /\ tmp = AbsentFile
    /\ flush = NoFlush
    /\ windows = LoopWindows
    /\ \E fails \in SUBSET Live(data, LoopMap) :
          LET out == auto_apply(data, EmptyCache, [h \in Handles |-> Opaque], LoopMap, fails)
          IN  /\ alphas = out.alphas
              /\ applied_alphas = out.cache
    /\ phase = "run"
    /\ rec = NoRec
    /\ gone = {}
    /\ timers = 1
    /\ stack = <<>>
    /\ outcome = "none"
    /\ NoLater

\* the timer fires: Tk calls _hover_monitor_tick
tick_start ==
    /\ loop_running(stack)
    /\ timers > 0
    /\ timers' = timers - 1
    /\ stack' = Append(stack, TickFrame)
    /\ UNCHANGED <<storevars, flushvars, latervars, appvars, outcome>>

\* _apply_hover_states returns or an exception escapes from it (from
\* store.all() or enumerate_windows, before anything is changed); the
\* finally clause arms the next timer
tick_end ==
    /\ stack # <<>>
    /\ Top.h = "tick"
    /\ \/ /\ \E q \in HoverResults(data) :
                \E fails \in SUBSET Called(data, applied_alphas, LoopMap, q.hovered_root) :
                    LET out == apply_hover_states(data, applied_alphas, alphas,
                                                  IF DOMAIN data = {} THEN NoMap ELSE LoopMap,
                                                  q.hovered_root, fails)
                    IN  /\ applied_alphas' = out.cache
                        /\ alphas' = out.alphas
          /\ outcome' = "ok"
       \/ /\ UNCHANGED <<alphas, applied_alphas>>
          /\ outcome' = "raised"
    /\ timers' = rearm(timers, outcome')
    /\ stack' = Pop
    /\ UNCHANGED <<storevars, flushvars, latervars, windows, phase, rec, gone>>

\* an apply that does not note what it pushed
apply_cache_skipped(cache, id, pushed) == cache

\* self.applied_alphas[identity] = target_alpha
apply_cache(cache, id, pushed) == [cache EXCEPT ![id] = pushed]

\* "apply" is pressed: without a selection a message box opens
apply_start ==
    /\ stack = <<>>
    /\ \E sel \in Selections, c \in AppControls :
          stack' = <<Frame("apply",
                           IF sel.handle = NoHandle THEN "dialog" ELSE "set_window_transparency",
                           sel.handle, sel.id, IF sel.handle = NoHandle THEN NoControls ELSE c)>>
    /\ UNCHANGED <<storevars, flushvars, latervars, appvars, timers, outcome>>

\* the next call of the try block of _apply_transparency; a call that
\* raises (the actuator, or a setter whose flush fails after the mapping is
\* changed) opens the error message box
apply_step ==
    /\ stack # <<>>
    /\ Top.h = "apply"
    /\ \E ok \in BOOLEAN :
          CASE Top.pc = "set_window_transparency" ->
                  \E hovered \in BOOLEAN :
                      LET target == IF Top.c.hover_enabled /\ hovered
                                    THEN Top.c.hover_alpha ELSE Top.c.default_alpha
                      IN  /\ hovered => Top.c.hover_enabled
                          /\ alphas' = IF ok THEN [alphas EXCEPT ![Top.handle] = target.v]
                                       ELSE alphas
                          /\ stack' = SetTop([Top EXCEPT
                                          !.pc = IF ok THEN "set_default_alpha" ELSE "dialog",
                                          !.alpha = IF ok THEN target ELSE NoneV])
                          /\ UNCHANGED <<data, file, applied_alphas>>
            [] Top.pc = "set_default_alpha" ->
                  /\ data' = set_default_alpha_data(data, Top.id, Top.c.default_alpha)
                  /\ file' = IF ok THEN flush_locked(data') ELSE file
                  /\ stack' = SetTop([Top EXCEPT
                                  !.pc = IF ok THEN "set_hover_alpha" ELSE "dialog",
                                  !.done = 1])
                  /\ UNCHANGED <<alphas, applied_alphas>>
            [] Top.pc = "set_hover_alpha" ->
                  /\ data' = set_hover_alpha_data(data, Top.id, Top.c.hover_alpha)
                  /\ file' = IF ok THEN flush_locked(data') ELSE file
                  /\ stack' = SetTop([Top EXCEPT
                                  !.pc = IF ok THEN "set_hover_enabled" ELSE "dialog",
                                  !.done = 2])
                  /\ UNCHANGED <<alphas, applied_alphas>>
            [] Top.pc = "set_hover_enabled" ->
                  /\ data' = set_hover_enabled_data(data, Top.id, BoolV(Top.c.hover_enabled))
                  /\ file' = IF ok THEN flush_locked(data') ELSE file
                  /\ applied_alphas' = IF ok THEN apply_cache(applied_alphas, Top.id, Top.alpha)
                                       ELSE applied_alphas
                  /\ stack' = IF ok THEN Pop
                              ELSE SetTop([Top EXCEPT !.pc = "dialog", !.done = 3])
                  /\ UNCHANGED alphas
            [] OTHER -> FALSE
    /\ UNCHANGED <<bak, call, opened, scenario, flushvars, latervars, windows, phase, rec, gone,
                   timers, outcome>>

\* "reset" is pressed
reset_start ==
    /\ stack = <<>>
    /\ \E sel \in Selections :
          stack' = <<Frame("reset",
                           IF sel.handle = NoHandle THEN "dialog" ELSE "remove_layered_style",
                           sel.handle, sel.id, NoControls)>>
    /\ UNCHANGED <<storevars, flushvars, latervars, appvars, timers, outcome>>

\* the next call of _reset_transparency: an error of remove_layered_style
\* is passed over; when the flush of store.remove raises, the exception
\* ends the handler
reset_step ==
    /\ stack # <<>>
    /\ Top.h = "reset"
    /\ \E ok \in BOOLEAN :
          CASE Top.pc = "remove_layered_style" ->
                  /\ alphas' = IF ok THEN [alphas EXCEPT ![Top.handle] = Opaque] ELSE alphas
                  /\ stack' = SetTop([Top EXCEPT !.pc = "remove"])
                  /\ UNCHANGED <<data, file, applied_alphas>>
            [] Top.pc = "remove" ->
                  /\ ~ok => Top.id \in DOMAIN data
                  /\ data' = IF Top.id \in DOMAIN data THEN remove_data(data, Top.id) ELSE data
                  /\ file' = IF ok /\ Top.id \in DOMAIN data THEN flush_locked(data') ELSE file
                  /\ applied_alphas' = IF ok THEN reset_cache(applied_alphas, Top.id)
                                       ELSE applied_alphas
                  /\ stack' = Pop
                  /\ UNCHANGED alphas
            [] OTHER -> FALSE
    /\ UNCHANGED <<bak, call, opened, scenario, flushvars, latervars, windows, phase, rec, gone,
                   timers, outcome>>

\* the user closes the message box and the handler returns
dialog_close ==
    /\ stack # <<>>
    /\ Top.pc = "dialog"
    /\ stack' = Pop
    /\ UNCHANGED <<storevars, flushvars, latervars, appvars, timers, outcome>>

NextLoop ==
    \/ tick_start
    \/ tick_end
    \/ apply_start
    \/ apply_step
    \/ reset_start
    \/ reset_step
    \/ dialog_close

SpecLoop == InitLoop /\ [][NextLoop]_vars

\* a handler that has been called runs on, and the loop serves a due timer
\* whenever it comes back to it
SpecLoopFair ==
    /\ SpecLoop
    /\ SF_vars(tick_start)
    /\ WF_vars(tick_end)
    /\ WF_vars(apply_step)
    /\ WF_vars(reset_step)

\* ------------------------------------------------------------------------
\* C19: ticks never overlap: at most one tick is executing, at most one
\* tick timer is pending (the timer is armed again only when the tick
\* finishes, and once), and no tick starts while an apply or reset handler
\* is between its first and its last store mutation.
\* ------------------------------------------------------------------------
TicksRunning == Cardinality({i \in 1..Len(stack) : stack[i].h = "tick"})

\* a handler that is between two of its calls, not waiting in a message box
MidHandler(f) == f.h \in {"apply", "reset"} /\ f.pc # "dialog"

C19_TicksNeverOverlap ==
    /\ TicksRunning <= 1
    /\ timers <= 1
    /\ timers + TicksRunning = 1
    /\ \A i \in 1..Len(stack) :
          stack[i].h = "tick" => \A j \in 1..(i - 1) : ~MidHandler(stack[j])

\* a tick runs while the error message box of an apply action is open, the
\* action having made its first two store mutations
C19_Witness ==
    /\ Len(stack) = 2
    /\ stack[1].h = "apply"
    /\ stack[1].pc = "dialog"
    /\ stack[1].done = 2
    /\ stack[2].h = "tick"
    /\ timers = 0

\* ------------------------------------------------------------------------
\* C20: once the monitor is started the loop never stops: every tick ends
\* and is followed by another tick, also when an exception escaped from the
\* body of the tick.
\* ------------------------------------------------------------------------
InTick == TicksRunning = 1

C20_LoopNeverStops == ([]<>InTick) /\ ([]<>~InTick)

\* a tick runs after a tick whose body raised
C20_Witness ==
    /\ InTick
    /\ outcome = "raised"

\* ------------------------------------------------------------------------
\* Two threads on one store (SpecThreads).  Every public method validates
\* its arguments first, which touches nothing shared, and then runs its body
\* under "with self._lock".  A thread is "idle", "waiting" for the lock with
\* its call chosen, "locked" (it holds the lock and has read the entry of
\* its key), "stored" (the mapping is updated), "written" (the .tmp sibling
\* is written) or "returned" (a reader holds its result).
\* ------------------------------------------------------------------------

ThreadAlphas == {IntV(180)}

\* the calls of a thread, with arguments that pass validation
ThreadCalls ==
    {[op |-> op, key |-> k, arg |-> a] :
        op \in {"set_default_alpha", "set_hover_alpha"}, k \in Keys, a \in ThreadAlphas}
    \cup {[op |-> "set_hover_enabled", key |-> k, arg |-> BoolV(b)] : k \in Keys, b \in BOOLEAN}
    \cup {[op |-> op, key |-> k, arg |-> NoneV] : op \in {"remove", "get_config"}, k \in Keys}
    \cup {[op |-> "all", key |-> "", arg |-> NoneV]}

Readers == {"get_config", "all"}

\* the mappings the store holds, flushed, when the threads start
ThreadData ==
    {EmptyData, Put(EmptyData, "A", TransparencyConfig(IntV(180), IntV(255), TRUE))}

\* a lock that every thread walks through
acquirable_always(l, t) == TRUE

\* "with self._lock": an RLock is taken when it is free or owned by the caller
acquirable(l, t) == l = NoThread \/ l = t

\* the mapping a call leaves when it runs alone on the mapping d
call_data(d, c) ==
    CASE c.op = "set_default_alpha" -> set_default_alpha_data(d, c.key, c.arg)
      [] c.op = "set_hover_alpha" -> set_hover_alpha_data(d, c.key, c.arg)
      [] c.op = "set_hover_enabled" -> set_hover_enabled_data(d, c.key, c.arg)
      [] c.op = "remove" -> IF c.key \in DOMAIN d THEN remove_data(d, c.key) ELSE d
      [] OTHER -> d

\* self._data.get(key): the stored object, or None
data_get(d, k) == IF k \in DOMAIN d THEN d[k] ELSE NoneV

\* the mapping as the holder of config sees it: config is the object it read
\* under the key k, which the mapping still holds unless it was deleted since
view(d, k, config) ==
    IF config = NoneV
    THEN remove_data(d, k)
    ELSE Put(d, k, IF k \in DOMAIN d THEN d[k] ELSE config)

\* what get_config(key) and all() return: clones of the stored entries
observed(d, c) ==
    IF c.op = "all" THEN d ELSE [k \in DOMAIN d \cap {c.key} |-> d[k]]

CallOf(t) == [op |-> threads[t].op, key |-> threads[t].key, arg |-> threads[t].arg]

InitThreads ==
    /\ \E d \in ThreadData : Construct(flush_locked(d), AbsentFile)
    /\ tmp = AbsentFile
    /\ flush = NoFlush
    /\ NoApp
    /\ NoLoop
    /\ lock = NoThread
    /\ threads = [t \in Threads |-> IdleThread]
    /\ serial = data
    /\ NoInstances
    /\ NoIdentity
    /\ NoHeld

threadframe == <<bak, call, opened, scenario, flush, appvars, loopvars, sharedvars, idvars,
                 heldvars>>

\* a thread calls a method; validation passes
call_start(t) ==
    /\ threads[t].pc = "idle"
    /\ \E c \in ThreadCalls :
          threads' = [threads EXCEPT ![t] =
                         [IdleThread EXCEPT !.pc = "waiting", !.op = c.op, !.key = c.key,
                                            !.arg = c.arg]]
    /\ UNCHANGED <<data, file, tmp, lock, serial, threadframe>>

\* a setter or remove enters the lock and looks its key up; a remove of a
\* key that is not stored leaves the lock at once
enter(t) ==
    /\ threads[t].pc = "waiting"
    /\ threads[t].op \notin Readers
    /\ acquirable(lock, t)
    /\ IF threads[t].op = "remove" /\ threads[t].key \notin DOMAIN data
       THEN /\ threads' = [threads EXCEPT ![t] = IdleThread]
            /\ lock' = lock
       ELSE /\ threads' = [threads EXCEPT ![t].pc = "locked",
                                          ![t].config = data_get(data, threads[t].key)]
            /\ lock' = t
    /\ serial' = call_data(serial, CallOf(t))
    /\ UNCHANGED <<data, file, tmp, threadframe>>

\* the entry is created or changed in place and put under its key, or deleted
store(t) ==
    /\ threads[t].pc = "locked"
    /\ data' = call_data(view(data, threads[t].key, threads[t].config), CallOf(t))
    /\ threads' = [threads EXCEPT ![t].pc = "stored"]
    /\ UNCHANGED <<file, tmp, lock, serial, threadframe>>

\* _flush_locked writes the .tmp sibling
thread_write_tmp(t) ==
    /\ threads[t].pc = "stored"
    /\ file' = flush_write(file, tmp, flush_locked(data)).file
    /\ tmp' = flush_write(file, tmp, flush_locked(data)).tmp
    /\ threads' = [threads EXCEPT ![t].pc = "written"]
    /\ UNCHANGED <<data, lock, serial, threadframe>>

\* _flush_locked replaces the settings file, and the call leaves the lock
thread_replace_tmp(t) ==
    /\ threads[t].pc = "written"
    /\ file' = flush_replace(file, tmp).file
    /\ tmp' = flush_replace(file, tmp).tmp
    /\ threads' = [threads EXCEPT ![t] = IdleThread]
    /\ lock' = NoThread
    /\ UNCHANGED <<data, serial, threadframe>>

\* get_config or all takes the lock, clones what it finds and leaves the lock
read(t) ==
    /\ threads[t].pc = "waiting"
    /\ threads[t].op \in Readers
    /\ acquirable(lock, t)
    /\ threads' = [threads EXCEPT ![t].pc = "returned",
                                  ![t].seen = observed(data, CallOf(t)),
                                  ![t].prefix = observed(serial, CallOf(t))]
    /\ UNCHANGED <<data, file, tmp, lock, serial, threadframe>>

\* the reader drops its result
forget(t) ==
    /\ threads[t].pc = "returned"
    /\ threads' = [threads EXCEPT ![t] = IdleThread]
    /\ UNCHANGED <<data, file, tmp, lock, serial, threadframe>>

NextThreads ==
    \E t \in Threads :
        \/ call_start(t)
        \/ enter(t)
        \/ store(t)
        \/ thread_write_tmp(t)
        \/ thread_replace_tmp(t)
        \/ read(t)
        \/ forget(t)

SpecThreads == InitThreads /\ [][NextThreads]_vars

InCriticalSection(t) == threads[t].pc \in {"locked", "stored", "written"}

\* C21: under any interleaving of the calls of two threads, a thread is
\* between its in-memory update and the end of its flush only while it holds
\* the lock; whenever no call is inside the lock the mapping equals the
\* result of the calls run one at a time in the order they took the lock,
\* and the settings file decodes to that mapping; and what a reader got back
\* is the result of the calls that took the lock before it
C21_Linearizable ==
    /\ \A t \in Threads : InCriticalSection(t) => lock = t
    /\ (\A t \in Threads : ~InCriticalSection(t)) =>
            /\ lock = NoThread
            /\ DataEq(data, serial)
            /\ FileMirrors(serial, file)
            /\ tmp = AbsentFile
    /\ \A t \in Threads :
            threads[t].pc = "returned" => DataEq(threads[t].seen, threads[t].prefix)

\* a setter has updated the mapping and not flushed it yet while the other
\* thread waits with a setter for the same entry
C21_Witness ==
    /\ threads[1].pc = "stored" /\ threads[1].op = "set_default_alpha"
    /\ threads[2].pc = "waiting" /\ threads[2].op = "set_hover_alpha"
    /\ threads[1].key = threads[2].key
    /\ threads[1].config = NoneV
    /\ ~FileMirrors(data, file)

\* ------------------------------------------------------------------------
\* Calls on the store whose flush may fail (SpecIO).  _flush_locked catches
\* nothing: an OSError of write_text or of replace leaves the method through
\* the "with" block, after the mapping has been changed.
\* ------------------------------------------------------------------------

\* how a flush ends: it returns, write_text raises, or replace raises
FlushOutcomes == {"ok", "write_text", "replace"}

\* the .tmp sibling a failed write_text leaves: the one it found (the open
\* failed), an empty one, or one cut short
FailedWrites(t) == {t, RawFile("empty"), PartialFile}

\* the files _flush_locked leaves for the mapping d, and whether it raised
flush_io(d, f, t, how, left) ==
    CASE how = "ok" -> [file |-> flush_replace(f, flush_write(f, t, flush_locked(d)).tmp).file,
                        tmp |-> AbsentFile, raised |-> FALSE]
      [] how = "write_text" -> [file |-> f, tmp |-> left, raised |-> TRUE]
      [] OTHER -> [file |-> f, tmp |-> flush_write(f, t, flush_locked(d)).tmp, raised |-> TRUE]

\* the mutating calls, on one entry
IOCalls == {c \in ThreadCalls : c.op \notin Readers /\ c.key = "A"}

InitIO ==
    /\ \E d \in ThreadData : Construct(flush_locked(d), AbsentFile)
    /\ tmp = AbsentFile
    /\ flush = NoFlush
    /\ NoApp
    /\ NoLoop
    /\ NoLater

\* a setter or remove with valid arguments: the mapping is changed, then
\* flushed
io_call(c, how, left) ==
    LET new == call_data(data, c)
        out == flush_io(new, file, tmp, how, left)
    IN  IF c.op = "remove" /\ c.key \notin DOMAIN data
        THEN /\ how = "ok" /\ left = tmp
             /\ call' = Call(c.op, StrKey(c.key), c.arg, TRUE)
             /\ UNCHANGED <<data, file, tmp>>
        ELSE /\ data' = new
             /\ file' = out.file
             /\ tmp' = out.tmp
             /\ call' = Call(c.op, StrKey(c.key), c.arg, ~out.raised)

io_frame == <<bak, opened, scenario, flush, appvars, loopvars, latervars>>

io_set_default_alpha ==
    /\ \E c \in IOCalls, how \in FlushOutcomes, left \in FailedWrites(tmp) :
          c.op = "set_default_alpha" /\ (how = "write_text" \/ left = tmp) /\ io_call(c, how, left)
    /\ UNCHANGED io_frame

io_set_hover_alpha ==
    /\ \E c \in IOCalls, how \in FlushOutcomes, left \in FailedWrites(tmp) :
          c.op = "set_hover_alpha" /\ (how = "write_text" \/ left = tmp) /\ io_call(c, how, left)
    /\ UNCHANGED io_frame

io_set_hover_enabled ==
    /\ \E c \in IOCalls, how \in FlushOutcomes, left \in FailedWrites(tmp) :
          c.op = "set_hover_enabled" /\ (how = "write_text" \/ left = tmp) /\ io_call(c, how, left)
    /\ UNCHANGED io_frame

io_remove ==
    /\ \E c \in IOCalls, how \in FlushOutcomes, left \in FailedWrites(tmp) :
          c.op = "remove" /\ (how = "write_text" \/ left = tmp) /\ io_call(c, how, left)
    /\ UNCHANGED io_frame

NextIO ==
    \/ io_set_default_alpha
    \/ io_set_hover_alpha
    \/ io_set_hover_enabled
    \/ io_remove

SpecIO == InitIO /\ [][NextIO]_vars

\* the settings file holds the serialization of the mapping d
Flushed(d, f) == f = flush_locked(d)

\* the call a step of SpecIO makes
CallMade == [op |-> call'.op, key |-> call'.key.s, arg |-> call'.arg]

\* C22: whatever way a setter or a remove ends, a flush that raises while
\* writing the .tmp file or while replacing the target included, either the
\* mapping and the settings file both hold the mutation or both are as the
\* call found them
C22_Atomic ==
    [][\/ data' = call_data(data, CallMade) /\ Flushed(data', file')
       \/ data' = data /\ file' = file]_vars

\* ------------------------------------------------------------------------
\* Two copies of the tool over one settings path (SpecShared).  Each holds
\* its own mapping and its own lock; both flush through the same .tmp
\* sibling.  write_text opens the .tmp file (truncating it), writes the
\* document from offset 0 and closes it; replace then moves the .tmp name
\* onto the settings file.  An open handle follows its file when the name is
\* moved (POSIX), or the move of a file that is open elsewhere is refused
\* (Windows): both outcomes are taken.
\* ------------------------------------------------------------------------

\* the calls of the copies
SharedCalls == {c \in IOCalls : c.op \in {"set_default_alpha", "set_hover_enabled", "remove"}}

\* the length of a document: one with more entries is longer, documents with
\* the same number of entries are taken to be equally long
doc_len(f) == Cardinality(DOMAIN f.obj)

\* the content after doc is written from offset 0 over the content c: a
\* longer content keeps its tail behind the document
overwrite(c, doc) ==
    IF c.kind \in {"absent", "empty"} \/ c = doc THEN doc
    ELSE IF c.kind = "obj" /\ doc_len(doc) >= doc_len(c) THEN doc
    ELSE RawFile("garbage")

\* the handles after the name "file" is given to another file
unlinked(ins) ==
    [i \in Instances |-> IF ins[i].handle = "file" THEN [ins[i] EXCEPT !.handle = "gone"]
                         ELSE ins[i]]

\* the handles after the .tmp file is moved onto the settings file
moved(ins) ==
    [i \in Instances |-> IF ins[i].handle = "tmp" THEN [ins[i] EXCEPT !.handle = "file"]
                         ELSE unlinked(ins)[i]]

InitShared ==
    /\ \E d \in ThreadData : Construct(flush_locked(d), AbsentFile)
    /\ tmp = AbsentFile
    /\ flush = NoFlush
    /\ NoApp
    /\ NoLoop
    /\ NoThreads
    /\ NoIdentity
    /\ NoHeld
    /\ instances = [i \in Instances |-> IdleInstance(data)]

shared_frame == <<data, bak, call, opened, scenario, flush, appvars, loopvars, threadvars,
                  idvars, heldvars>>

\* a setter or remove changes the mapping of copy i and enters write_text,
\* which opens and truncates the .tmp file
shared_open(i) ==
    /\ instances[i].pc = "idle"
    /\ \E c \in SharedCalls :
          /\ c.op = "remove" => c.key \in DOMAIN instances[i].data
          /\ instances' = [instances EXCEPT ![i] = [pc |-> "opened",
                                                    data |-> call_data(instances[i].data, c),
                                                    handle |-> "tmp"]]
    /\ tmp' = RawFile("empty")
    /\ UNCHANGED <<file, shared_frame>>

\* write_text writes the document through its handle and closes it
shared_write(i) ==
    /\ instances[i].pc = "opened"
    /\ LET doc == flush_locked(instances[i].data)
       IN  CASE instances[i].handle = "tmp" -> tmp' = overwrite(tmp, doc) /\ file' = file
             [] instances[i].handle = "file" -> file' = overwrite(file, doc) /\ tmp' = tmp
             [] OTHER -> UNCHANGED <<file, tmp>>
    /\ instances' = [instances EXCEPT ![i].pc = "written", ![i].handle = "none"]
    /\ UNCHANGED shared_frame

\* replace moves the .tmp file onto the settings file; it raises when the
\* .tmp file is gone, and may raise when the other copy holds it open
shared_replace(i) ==
    /\ instances[i].pc = "written"
    /\ \/ /\ tmp # AbsentFile
          /\ file' = tmp
          /\ tmp' = AbsentFile
          /\ instances' = [moved(instances) EXCEPT ![i].pc = "idle"]
       \/ /\ tmp = AbsentFile \/ \E j \in Instances : instances[j].handle = "tmp"
          /\ instances' = [instances EXCEPT ![i].pc = "idle"]
          /\ UNCHANGED <<file, tmp>>
    /\ UNCHANGED shared_frame

NextShared ==
    \E i \in Instances :
        \/ shared_open(i)
        \/ shared_write(i)
        \/ shared_replace(i)

SpecShared == InitShared /\ [][NextShared]_vars

\* C23: under every interleaving of the flush steps of two stores over one
\* path, the settings file always holds a complete serialization of a
\* mapping, never a partial or mixed write
C23_CompleteFile == file.kind = "obj"

\* ------------------------------------------------------------------------
\* Identity keys (SpecIdentity): WindowInfo.identity_key builds the key of a
\* window and TransparencyApp._split_identity takes a key apart.
\* ------------------------------------------------------------------------

MaxFieldLen == 2

Sep == "|"
Slash == "/"
Chars == {"a", Sep}

\* the strs of at most MaxFieldLen characters
Strs == UNION {[1..n -> Chars] : n \in 0..MaxFieldLen}

Unknown == <<"UNKNOWN">>
Untitled == <<"UNTITLED">>

\* the windows enumerate_windows may report
WindowInfos ==
    [process_path : Strs \cup {NoneStr}, class_name : Strs, title : Strs]

\* s.replace("|", "/")
replace_sep(s) == [i \in 1..Len(s) |-> IF s[i] = Sep THEN Slash ELSE s[i]]

\* s or d: None and the empty str are falsy
or_default(s, d) == IF s = NoneStr \/ s = <<>> THEN d ELSE s

\* WindowInfo.identity_key
identity_key(w) ==
    replace_sep(or_default(w.process_path, Unknown)) \o <<Sep>> \o w.class_name
        \o <<Sep>> \o replace_sep(or_default(w.title, Untitled))

\* the index of the first separator of s, 0 when it has none
find_sep(s) ==
    IF \E i \in 1..Len(s) : s[i] = Sep
    THEN CHOOSE i \in 1..Len(s) : s[i] = Sep /\ \A j \in 1..(i - 1) : s[j] # Sep
    ELSE 0

\* s.split("|", maxsplit)
RECURSIVE split(_, _)
split(s, maxsplit) ==
    IF maxsplit = 0 \/ find_sep(s) = 0
    THEN <<s>>
    ELSE <<SubSeq(s, 1, find_sep(s) - 1)>> \o split(SubSeq(s, find_sep(s) + 1, Len(s)), maxsplit - 1)

\* _split_identity
split_identity(id) ==
    LET parts == split(id, 2)
    IN  CASE Len(parts) = 3 -> <<parts[1], parts[2], parts[3]>>
          [] Len(parts) = 2 -> <<parts[1], parts[2], <<>>>>
          [] Len(parts) = 1 -> <<parts[1], <<>>, <<>>>>
          [] OTHER -> <<<<>>, <<>>, <<>>>>

InitIdentity ==
    /\ \E d \in ThreadData : Construct(flush_locked(d), AbsentFile)
    /\ tmp = AbsentFile
    /\ flush = NoFlush
    /\ NoApp
    /\ NoLoop
    /\ NoThreads
    /\ NoInstances
    /\ NoHeld
    /\ \E w \in WindowInfos :
          identity = [pc |-> "window", info |-> w, key |-> NoKey, parts |-> NoParts]

id_frame == <<storevars, flushvars, appvars, loopvars, threadvars, sharedvars, heldvars>>

\* the key of the window is derived
derive_key ==
    /\ identity.pc = "window"
    /\ identity' = [identity EXCEPT !.pc = "key", !.key = identity_key(identity.info)]
    /\ UNCHANGED id_frame

\* the key is split for display
split_key ==
    /\ identity.pc = "key"
    /\ identity' = [identity EXCEPT !.pc = "split", !.parts = split_identity(identity.key)]
    /\ UNCHANGED id_frame

NextIdentity ==
    \/ derive_key
    \/ split_key

SpecIdentity == InitIdentity /\ [][NextIdentity]_vars

\* the number of separators in s
RECURSIVE count_sep(_)
count_sep(s) ==
    IF s = <<>> THEN 0 ELSE (IF Head(s) = Sep THEN 1 ELSE 0) + count_sep(Tail(s))

\* C24: whatever characters the executable path, the class name and the
\* title of a window hold, its key holds exactly two separators and
\* _split_identity gives back the path or UNKNOWN, the class name and the
\* title or UNTITLED the key was built from (separators of path and title
\* replaced)
C24_SeparatorSafe ==
    identity.pc = "split" =>
        /\ count_sep(identity.key) = 2
        /\ identity.parts = <<replace_sep(or_default(identity.info.process_path, Unknown)),
                              identity.info.class_name,
                              replace_sep(or_default(identity.info.title, Untitled))>>

\* ------------------------------------------------------------------------
\* The apply and reset handlers step by step (SpecLoop)
\* ------------------------------------------------------------------------

\* the step is the actuator call of the apply handler, and it raises
ActuatorFails ==
    /\ stack # <<>> /\ Top.h = "apply" /\ Top.pc = "set_window_transparency"
    /\ stack' # <<>> /\ stack'[Len(stack')].pc = "dialog"

\* the step is the last call of the try block of the apply handler, and the
\* handler returns
ApplySucceeds ==
    /\ stack # <<>> /\ Top.h = "apply" /\ Top.pc = "set_hover_enabled"
    /\ stack' = Pop

\* C25: when the actuator call of the apply action raises, the error is
\* shown in a message box and the mapping, the settings file, the cache of
\* applied alphas and the windows are as the action found them; when the
\* apply action succeeds, the stored configuration of the selected identity
\* is the one of the controls and the cache entry is the alpha that was
\* pushed to the window
C25_ApplyOutcome ==
    [][/\ ActuatorFails =>
            /\ stack'[Len(stack')].h = "apply"
            /\ UNCHANGED <<data, file, applied_alphas, alphas>>
       /\ ApplySucceeds =>
            /\ Top.id \in DOMAIN data'
            /\ ConfigEq(data'[Top.id], Top.c)
            /\ applied_alphas'[Top.id] = Top.alpha
            /\ Top.alpha \in {Top.c.default_alpha, Top.c.hover_alpha}]_vars

\* the actuator call of an apply on a stored, applied identity has raised
\* and the message box is open
C25_Witness ==
    /\ stack # <<>>
    /\ Top.h = "apply" /\ Top.pc = "dialog" /\ Top.handle # NoHandle /\ Top.done = 0
    /\ Top.id \in DOMAIN data
    /\ ~ConfigEq(data[Top.id], Top.c)
    /\ applied_alphas[Top.id] # NoneV

\* ------------------------------------------------------------------------
\* Reset and the cache of applied alphas (SpecApp)
\* ------------------------------------------------------------------------

\* the handler that has just run is a reset
WasReset(r) == r.kind = "reset"

OverExistingFile == call = FirstCall /\ opened.file.kind # "absent"

\* a file _load keeps or replaces by what it read: not empty or blank, and
\* with no entry that from_payload rejects
Clean(f) ==
    /\ f.kind \notin {"empty", "blank"}
    /\ \A k \in DOMAIN f.obj : from_payload_ok(f.obj[k])

\* C27 as stated: right after a store is constructed over any existing
\* settings file, the file decodes to exactly the mapping, with the same keys
\* and the same configurations, also when _load dropped invalid entries or
\* found an empty file
C27_AsStated == OverExistingFile => FileMirrors(data, file)

\* C27: right after a store is constructed over an existing settings file,
\* loading the file again gives the mapping the store holds; the file holds
\* exactly the keys and configurations of the mapping if and only if the
\* file found was not empty or blank and held no entry that is dropped
C27_MirrorAfterLoad ==
    OverExistingFile =>
        /\ DataEq(load(file, bak).data, data)
        /\ FileMirrors(data, file) <=> Clean(opened.file)

\* a store constructed over a file of which one entry was kept and one
\* was dropped
C27_Witness ==
    /\ OverExistingFile
    /\ opened.file.kind = "obj"
    /\ data # EmptyData
    /\ \E k \in DOMAIN opened.file.obj : ~from_payload_ok(opened.file.obj[k])
    /\ file = opened.file

\* ------------------------------------------------------------------------
\* What get_config and all hand out (SpecClone).  A caller holds references
\* to configuration objects; writing a field of an object the mapping of the
\* store holds as well changes the mapping.
\* ------------------------------------------------------------------------

\* a getter that hands out the stored object
clone_same_object(config) == Ref(TRUE, config)

\* TransparencyConfig.clone: a new object with the same three fields
clone(config) == Ref(FALSE, config)

\* get_config(key): a clone of the entry, or None
get_config(d, key) ==
    Held(TRUE, [k \in DOMAIN d \cap {key} |-> clone(d[k])])

\* all(): a new dict of clones
all(d) == Held(TRUE, [k \in DOMAIN d |-> clone(d[k])])

\* the values a caller writes into a field of a configuration it holds
CallerConfigs(c) ==
    {[c EXCEPT !.default_alpha = IntV(10)], [c EXCEPT !.hover_alpha = IntV(10)],
     [c EXCEPT !.hover_enabled = ~c.hover_enabled]}

InitClone ==
    /\ \E d \in ThreadData : Construct(flush_locked(d), AbsentFile)
    /\ tmp = AbsentFile
    /\ flush = NoFlush
    /\ NoApp
    /\ NoLoop
    /\ NoThreads
    /\ NoInstances
    /\ NoIdentity
    /\ NoHeld

clone_frame == <<bak, opened, scenario, flushvars, appvars, loopvars, threadvars, sharedvars,
                 idvars>>

\* a setter or remove of the store
clone_mutate ==
    /\ \E c \in IOCalls :
          /\ data' = call_data(data, c)
          /\ file' = IF c.op = "remove" /\ c.key \notin DOMAIN data THEN file
                     ELSE flush_locked(call_data(data, c))
          /\ call' = Call(c.op, StrKey(c.key), c.arg, TRUE)
    /\ UNCHANGED <<held, clone_frame>>

\* the caller calls get_config
clone_get_config ==
    /\ \E key \in Keys :
          /\ held' = get_config(data, key)
          /\ call' = Call("get_config", StrKey(key), NoneV, TRUE)
    /\ UNCHANGED <<data, file, clone_frame>>

\* the caller calls all
clone_all ==
    /\ held' = all(data)
    /\ call' = Call("all", NoneKey, NoneV, TRUE)
    /\ UNCHANGED <<data, file, clone_frame>>

\* the caller writes a field of a configuration it got
caller_sets_field ==
    /\ \E k \in DOMAIN held.refs :
          \E c \in CallerConfigs(held.refs[k].config) :
              /\ held' = [held EXCEPT !.refs[k].config = c]
              /\ data' = IF held.refs[k].stored /\ k \in DOMAIN data
                         THEN [data EXCEPT ![k] = c] ELSE data
    /\ call' = Call("caller", NoneKey, NoneV, TRUE)
    /\ UNCHANGED <<file, clone_frame>>

\* the caller deletes a key of the mapping it got
caller_deletes_key ==
    /\ \E k \in DOMAIN held.refs :
          /\ held' = [held EXCEPT !.refs = [x \in DOMAIN held.refs \ {k} |-> held.refs[x]]]
          /\ data' = IF held.own THEN data ELSE remove_data(data, k)
    /\ call' = Call("caller", NoneKey, NoneV, TRUE)
    /\ UNCHANGED <<file, clone_frame>>

NextClone ==
    \/ clone_mutate
    \/ clone_get_config
    \/ clone_all
    \/ caller_sets_field
    \/ caller_deletes_key

SpecClone == InitClone /\ [][NextClone]_vars

\* the values of what the caller holds
HeldValues(h) == [k \in DOMAIN h.refs |-> h.refs[k].config]

\* C28: when a caller writes a field of a configuration it got from
\* get_config or all, or changes the mapping it got from all, the store
\* returns from get_config and all what it returned before, and the settings
\* file is unchanged
C28_Clones ==
    [][call'.op = "caller" =>
          /\ file' = file
          /\ HeldValues(all(data')) = HeldValues(all(data))
          /\ \A key \in Keys :
                HeldValues(get_config(data', key)) = HeldValues(get_config(data, key))]_vars

\* the caller has changed a configuration it got, which now differs from the
\* stored one; the file still mirrors the mapping
C28_Witness ==
    /\ call.op = "caller"
    /\ \E k \in DOMAIN held.refs : k \in DOMAIN data /\ held.refs[k].config # data[k]
    /\ FileMirrors(data, file)

\* ------------------------------------------------------------------------
\* The cache of applied alphas and the mapping (SpecLoop)
\* ------------------------------------------------------------------------

\* C29: whenever no handler and no tick is running, every identity with an
\* entry in the cache of applied alphas has a stored configuration
C29_CacheWithinStore ==
    stack = <<>> => \A id \in Keys : applied_alphas[id] # NoneV => id \in DOMAIN data

====
